---- MODULE Spec2Model ----
(***************************************************************************)
(* A model of internal/docker/builder.go of Complement: the label codec,   *)
(* the construction of one blueprint (construct), the concurrent           *)
(* construction of a batch (ConstructBlueprints and                        *)
(* ConstructBlueprintsIfNotExist) and Cleanup, against a docker runtime    *)
(* whose calls may fail.                                                   *)
(***************************************************************************)
EXTENDS Integers, Sequences, FiniteSets, TLC

VARIABLES
    codec,      \* the label codec's input, labels and decoded maps
    bs,         \* the blueprints handed to the orchestrator's entry point
    cfg,        \* Builder fields and environment read by the code
    networks,   \* docker: the networks that exist
    containers, \* docker: the containers that exist
    images,     \* docker: the images that exist
    task,       \* per blueprint name: the goroutine running construct
    errc,       \* the channel of ConstructBlueprints
    orch,       \* the caller's position in the orchestrator's entry points
    clean       \* Cleanup's position and what it did

vars == <<codec, bs, cfg, networks, containers, images, task, errc, orch, clean>>

(***************************************************************************)
(* Bounds of the model.                                                    *)
(***************************************************************************)
MaxAS == 2          \* application services per homeserver
MaxHS == 2          \* homeservers of the blueprint built by construct
MaxBatch == 2       \* blueprints in one batch
MaxList == 1        \* blueprints in the list of the call that is repeated
MaxIterations == 2  \* largest configured VersionCheckIterations
MaxOld == 2         \* complement-labeled images present before Cleanup

(***************************************************************************)
(* Go values.                                                              *)
(***************************************************************************)
\* a nil error
nil == "<nil>"

\* the empty map
EmptyMap == [k \in {} |-> ""]

\* strings.HasPrefix
HasPrefix(s, prefix) ==
    /\ Len(s) >= Len(prefix)
    /\ SubSeq(s, 1, Len(prefix)) = prefix

\* strings.TrimPrefix
TrimPrefix(s, prefix) ==
    IF HasPrefix(s, prefix) THEN SubSeq(s, Len(prefix) + 1, Len(s)) ELSE s

\* for k, v := range src { dst[k] = v }
MergeInto(dst, src) ==
    [k \in DOMAIN dst \cup DOMAIN src |-> IF k \in DOMAIN src THEN src[k] ELSE dst[k]]

\* m[k] = v
MapSet(m, k, v) == [x \in DOMAIN m \cup {k} |-> IF x = k THEN v ELSE m[x]]

\* m[k] of a map[string]string: the zero value when the key is absent
MapGet(m, k) == IF k \in DOMAIN m THEN m[k] ELSE ""

complementLabel == "complement_context"

(***************************************************************************)
(* The label codec.                                                        *)
(***************************************************************************)
FixedHSToken == "27562ff25dd2eb69361ac1eb67e3a3cd38ab9509c1483234ec8dfec0f247c73e"
FixedASToken == "f872531e387377686989e792c723e646f7823643e747a0521e94770a721f40fc"

\* fmt's %v of a bool
FormatBool(v) == IF v THEN "true" ELSE "false"

generateASRegistrationYaml(as) ==
    "id: " \o as.ID \o "\n" \o
    "hs_token: " \o as.HSToken \o "\n" \o
    "as_token: " \o as.ASToken \o "\n" \o
    "url: '" \o as.URL \o "'\n" \o
    "sender_localpart: " \o as.SenderLocalpart \o "\n" \o
    "rate_limited: " \o FormatBool(as.RateLimited) \o "\n" \o
    "namespaces:\n" \o
    "  users: []\n" \o
    "  rooms: []\n" \o
    "  aliases: []\n"

tokensFromLabelsKeepPrefix(labels) ==
    LET ks == {k \in DOMAIN labels : HasPrefix(k, "access_token_")}
    IN  [u \in ks |-> labels[u]]

tokensFromLabels(labels) ==
    LET ks == {k \in DOMAIN labels : HasPrefix(k, "access_token_")}
    IN  [u \in {TrimPrefix(k, "access_token_") : k \in ks} |->
            labels["access_token_" \o u]]

labelsForTokens(userIDToToken) ==
    [l \in {"access_token_" \o k : k \in DOMAIN userIDToToken} |->
        userIDToToken[TrimPrefix(l, "access_token_")]]

asIDToRegistrationFromLabels(labels) ==
    LET ks == {k \in DOMAIN labels : HasPrefix(k, "application_service_")}
    IN  [a \in {TrimPrefix(k, "application_service_") : k \in ks} |->
            labels["application_service_" \o a]]

\* the loop of labelsForApplicationServices over hs.ApplicationServices[1..n]
RECURSIVE asLabelsUpTo(_, _)
asLabelsUpTo(hs, n) ==
    IF n = 0 THEN EmptyMap
    ELSE LET as == [hs.ApplicationServices[n] EXCEPT !.HSToken = FixedHSToken,
                                                     !.ASToken = FixedASToken]
             l1 == MapSet(asLabelsUpTo(hs, n - 1),
                          "application_service_" \o as.ID,
                          generateASRegistrationYaml(as))
         IN  MapSet(l1, "access_token_@" \o as.SenderLocalpart \o ":" \o hs.Name,
                    as.ASToken)

labelsForApplicationServices(hs) == asLabelsUpTo(hs, Len(hs.ApplicationServices))

(***************************************************************************)
(* Inputs.                                                                 *)
(***************************************************************************)
ASIDs == {"as1", "as2"}
SenderLocalparts == {"bot", "bridge"}

ApplicationServiceValues ==
    [ID : ASIDs, HSToken : {""}, ASToken : {""}, URL : {"http://as:9000"},
     SenderLocalpart : SenderLocalparts, RateLimited : BOOLEAN]

ASLists == UNION {[1..n -> ApplicationServiceValues] : n \in 0..MaxAS}

CredentialKeys == {"@alice:hs1", "@bot:hs1", "access_token_x"}
TokenValues == {"tokA", "tokB"}
CredentialMaps == UNION {[ks -> TokenValues] : ks \in SUBSET CredentialKeys}


\* the homeservers construct is handed: with or without an application service
HomeserverASLists ==
    {<<>>,
     <<[ID |-> "as1", HSToken |-> "", ASToken |-> "", URL |-> "http://as:9000",
        SenderLocalpart |-> "bot", RateLimited |-> FALSE]>>}

HomeserverName(n) == "hs" \o ToString(n)

\* the users the blueprint has the instruction executor register
HomeserverUserLists == {<<>>, <<"alice">>}

\* the homeserver lists of n homeservers, named hs1..hsn, all of them with
\* the same application services and users
HomeserverLists(n) ==
    {[k \in 1..n |-> [Name |-> HomeserverName(k), ApplicationServices |-> as,
                      Users |-> us]] :
        as \in HomeserverASLists, us \in HomeserverUserLists}

\* runner.AccessTokens(hs.Name) after a successful Run: one credential per
\* user the executor registered on the homeserver
AccessTokens(hs) ==
    [u \in {"@" \o hs.Users[n] \o ":" \o hs.Name : n \in DOMAIN hs.Users} |->
        "syt_" \o u]

Configs ==
    [VersionCheckIterations : (-1)..MaxIterations,
     COMPLEMENT_CA : BOOLEAN,
     KeepBlueprints : {<<>>}]

(***************************************************************************)
(* The docker runtime.  Identifiers are opaque values the runtime returns: *)
(* the model derives them from the name the object was created under.      *)
(***************************************************************************)
NetworkIDOf(name) == "net:" \o name
ContainerIDOf(name) == "ctr:" \o name
ImageIDOf(ref) == "sha256:" \o ref

HostnameRunningDocker == "localhost"
CSHostPort == "32768"
FedHostPort == "32769"

\* inspect.NetworkSettings.Ports of a started container: all ports are
\* published, yet the image may expose neither, one or both of the two ports
PortMaps ==
    {EmptyMap,
     "8008/tcp" :> CSHostPort,
     "8448/tcp" :> FedHostPort,
     ("8008/tcp" :> CSHostPort) @@ ("8448/tcp" :> FedHostPort)}

endpoints(p, csPort, ssPort) ==
    LET csapiPort == ToString(csPort) \o "/tcp"
        ssapiPort == ToString(ssPort) \o "/tcp"
    IN  IF csapiPort \notin DOMAIN p
        THEN [baseURL |-> "", fedBaseURL |-> "",
              err |-> "port " \o csapiPort \o " not exposed"]
        ELSE IF ssapiPort \notin DOMAIN p
        THEN [baseURL |-> "", fedBaseURL |-> "",
              err |-> "port " \o ssapiPort \o " not exposed"]
        ELSE [baseURL |-> "http://" \o HostnameRunningDocker \o ":" \o p[csapiPort],
              fedBaseURL |-> "https://" \o HostnameRunningDocker \o ":" \o p[ssapiPort],
              err |-> nil]

\* the labels deployImage creates a container with
ContainerLabels(contextStr, blueprintName, hsName) ==
    (complementLabel :> contextStr) @@
    ("complement_blueprint" :> blueprintName) @@
    ("complement_hs_name" :> hsName)

\* the labels CreateNetwork creates a network with
NetworkLabels(blueprintName) ==
    (complementLabel :> blueprintName) @@ ("complement_blueprint" :> blueprintName)

\* docker's label filter: "key" matches a label of that key, "key=value" a
\* label of that key and value
HasLabel(labels, key) == key \in DOMAIN labels
HasLabelValue(labels, key, value) == key \in DOMAIN labels /\ labels[key] = value

(***************************************************************************)
(* construct: the state of one goroutine.                                  *)
(***************************************************************************)
ZeroResult == [err |-> nil, containerID |-> "", contextStr |-> "",
               homeserver |-> [Name |-> "", ApplicationServices |-> <<>>, Users |-> <<>>]]

ZeroDeploy == [containerID |-> "", baseURL |-> "", fedBaseURL |-> "",
               labels |-> EmptyMap, polls |-> 0, lastErr |-> nil, up |-> FALSE]

\* the zero value of the runtime's answer to NetworkCreate
ZeroNetworkCreate == [err |-> nil, ID |-> "", Warning |-> ""]

\* the goroutine of a blueprint before it runs
NewTask(bprint, pc) ==
    [pc |-> pc, bprint |-> bprint, networkID |-> "", i |-> 1, j |-> 1,
     errs |-> <<>>, results |-> [k \in 1..Len(bprint.Homeservers) |-> ZeroResult],
     defers |-> <<>>, dep |-> ZeroDeploy, res |-> ZeroResult,
     tokens |-> EmptyMap, log |-> <<>>, nw |-> ZeroNetworkCreate, err |-> nil]

ContextStr(t) == t.bprint.Name \o "." \o t.bprint.Homeservers[t.i].Name

\* where the loop over bprint.Homeservers goes from index i
LoopPC(t, i) ==
    IF i <= Len(t.bprint.Homeservers)
    THEN IF cfg.COMPLEMENT_CA THEN "getCaVolume" ELSE "create"
    ELSE IF Len(t.bprint.Homeservers) > 0 THEN "commit" ELSE "returned"

\* constructHomeserver returns a failed result
FailedResult(t, err, containerID) ==
    [err |-> err, containerID |-> containerID, contextStr |-> ContextStr(t),
     homeserver |-> t.bprint.Homeservers[t.i]]


\* one docker or executor call of a goroutine, as the ordering properties see it
Call(op, hs, id, ok, labels) ==
    [op |-> op, hs |-> hs, id |-> id, ok |-> ok, labels |-> labels]

\* what the runtime may answer to NetworkCreate
NetworkCreateResponses(name) ==
    [err : {nil, "NetworkCreate failed"},
     ID : {"", NetworkIDOf(name)},
     Warning : {"", "warning"}]

CreateNetworkTrustsNoError(blueprintName, nw) ==
    IF nw.err # nil
    THEN [networkID |-> "",
          err |-> blueprintName \o ": failed to create docker network. " \o nw.err]
    ELSE [networkID |-> nw.ID, err |-> nil]

\* CreateNetwork, from the runtime's answer to the value it returns
CreateNetwork(blueprintName, nw) ==
    IF nw.err # nil
    THEN [networkID |-> "",
          err |-> blueprintName \o ": failed to create docker network. " \o nw.err]
    ELSE IF nw.Warning # "" /\ nw.ID = ""
    THEN [networkID |-> "",
          err |-> blueprintName \o ": fatal warning while creating docker network. "
                  \o nw.Warning]
    ELSE IF nw.ID = ""
    THEN [networkID |-> "",
          err |-> blueprintName \o ": unexpected empty ID while creating networkID"]
    ELSE [networkID |-> nw.ID, err |-> nil]

\* construct: the call of CreateNetwork, which calls NetworkCreate
ConstructCreateNetwork(b) ==
    LET t == task[b] IN
    /\ t.pc = "createNetwork"
    /\ \E nw \in NetworkCreateResponses("complement_" \o t.bprint.Name) :
        LET r == CreateNetwork(t.bprint.Name, nw)
            made == nw.err = nil /\ nw.ID # ""
        IN  /\ networks' = IF made
                           THEN networks \cup
                                {[ID |-> nw.ID, Labels |-> NetworkLabels(t.bprint.Name)]}
                           ELSE networks
            /\ task' = [task EXCEPT ![b] =
                  [t EXCEPT
                     !.log = Append(@, Call("NetworkCreate", 0, nw.ID, made, EmptyMap)),
                     !.nw = nw,
                     !.networkID = r.networkID,
                     !.err = r.err,
                     !.pc = "checkNetwork"]]
    /\ UNCHANGED <<codec, bs, cfg, containers, images, errc, orch, clean>>

AfterNetworkPCContinue(t, err) == LoopPC(t, 1)

\* where construct goes with the error CreateNetwork returned
AfterNetworkPC(t, err) == IF err # nil THEN "returned" ELSE LoopPC(t, 1)

\* construct: CreateNetwork returned: the return of its error as the only
\* one, or else the start of the loop over the homeservers
ConstructCheckNetwork(b) ==
    LET t == task[b] IN
    /\ t.pc = "checkNetwork"
    /\ task' = [task EXCEPT ![b] =
          [t EXCEPT !.errs = IF t.err # nil THEN <<t.err>> ELSE @,
                    !.nw = ZeroNetworkCreate,
                    !.err = nil,
                    !.pc = AfterNetworkPC(t, t.err)]]
    /\ UNCHANGED <<codec, bs, cfg, networks, containers, images, errc, orch, clean>>

\* deployImage: getCaVolume, when COMPLEMENT_CA is "true"
DeployGetCaVolume(b) ==
    LET t == task[b] IN
    /\ t.pc = "getCaVolume"
    /\ \E ok \in BOOLEAN :
        task' = [task EXCEPT ![b] =
            IF ok
            THEN [t EXCEPT !.pc = "create"]
            ELSE [t EXCEPT !.pc = "record",
                           !.res = FailedResult(t, "getCaVolume failed", "")]]
    /\ UNCHANGED <<codec, bs, cfg, networks, containers, images, errc, orch, clean>>

\* deployImage: ContainerCreate.  The runtime refuses a name already in use.
DeployContainerCreate(b) ==
    LET t == task[b]
        name == "complement_" \o ContextStr(t)
        id == ContainerIDOf(name)
        hs == t.bprint.Homeservers[t.i]
    IN
    /\ t.pc = "create"
    /\ \E ok \in BOOLEAN :
        /\ ok => id \notin DOMAIN containers
        /\ containers' =
             IF ok
             THEN (id :> [Labels |-> ContainerLabels(ContextStr(t), t.bprint.Name, hs.Name)])
                  @@ containers
             ELSE containers
        /\ task' = [task EXCEPT ![b] =
             IF ok
             THEN [t EXCEPT !.pc = "start",
                            !.dep = [ZeroDeploy EXCEPT !.containerID = id],
                            !.log = Append(@, Call("ContainerCreate", t.i, id, TRUE, EmptyMap))]
             ELSE [t EXCEPT !.pc = "record",
                            !.res = FailedResult(t, "ContainerCreate failed", ""),
                            !.log = Append(@, Call("ContainerCreate", t.i, "", FALSE, EmptyMap))]]
    /\ UNCHANGED <<codec, bs, cfg, networks, images, errc, orch, clean>>

\* deployImage: ContainerStart; on failure it returns no deployment
DeployContainerStart(b) ==
    LET t == task[b]
        id == t.dep.containerID
    IN
    /\ t.pc = "start"
    /\ \E ok \in BOOLEAN :
        /\ task' = [task EXCEPT ![b] =
             IF ok
             THEN [t EXCEPT !.pc = "inspect",
                            !.log = Append(@, Call("ContainerStart", t.i, id, TRUE, EmptyMap))]
             ELSE [t EXCEPT !.pc = "record",
                            !.res = FailedResult(t, "ContainerStart failed", ""),
                            !.log = Append(@, Call("ContainerStart", t.i, id, FALSE, EmptyMap))]]
    /\ UNCHANGED <<codec, bs, cfg, networks, containers, images, errc, orch, clean>>

\* deployImage: ContainerInspect and endpoints; on failure of either it
\* returns no deployment
DeployContainerInspect(b) ==
    LET t == task[b]
        id == t.dep.containerID
    IN
    /\ t.pc = "inspect"
    /\ \/ task' = [task EXCEPT ![b] =
             [t EXCEPT !.pc = "record",
                       !.res = FailedResult(t, "ContainerInspect failed", ""),
                       !.log = Append(@, Call("ContainerInspect", t.i, id, FALSE, EmptyMap))]]
       \/ \E p \in PortMaps :
            LET e == endpoints(p, 8008, 8448) IN
            task' = [task EXCEPT ![b] =
              IF e.err # nil
              THEN [t EXCEPT !.pc = "record",
                             !.res = FailedResult(t, e.err, ""),
                             !.log = Append(@, Call("ContainerInspect", t.i, id, TRUE, EmptyMap))]
              ELSE [t EXCEPT !.pc = "health",
                             !.dep = [@ EXCEPT !.baseURL = e.baseURL,
                                               !.fedBaseURL = e.fedBaseURL,
                                               !.labels = containers[id].Labels],
                             !.log = Append(@, Call("ContainerInspect", t.i, id, TRUE, EmptyMap))]]
    /\ UNCHANGED <<codec, bs, cfg, networks, containers, images, errc, orch, clean>>

\* what one GET of /_matrix/client/versions may give
VersionResponses == {"error", "HTTP 503", "HTTP 200"}

VersionLoopLeftOneEarly(dep, versionCheckIterations) ==
    dep.up \/ dep.polls >= versionCheckIterations - 1

\* the loop that polls /versions is left: by break after a poll returned 200,
\* or because i < versionCheckIterations is false
VersionLoopLeft(dep, versionCheckIterations) ==
    dep.up \/ dep.polls >= versionCheckIterations

\* deployImage: one iteration of the loop that polls /versions
DeployVersionCheck(b) ==
    LET t == task[b] IN
    /\ t.pc = "health"
    /\ ~VersionLoopLeft(t.dep, cfg.VersionCheckIterations)
    /\ \E r \in VersionResponses :
        task' = [task EXCEPT ![b] =
          [t EXCEPT
             !.dep = [@ EXCEPT
                        !.polls = @ + 1,
                        !.up = (r = "HTTP 200"),
                        !.lastErr = IF r = "HTTP 200" THEN nil
                                    ELSE "GET /_matrix/client/versions => " \o r],
             !.log = Append(@, Call("GET versions", t.i, t.dep.containerID,
                                    r = "HTTP 200", EmptyMap))]]
    /\ UNCHANGED <<codec, bs, cfg, networks, containers, images, errc, orch, clean>>

DeploymentOfAllLabels(dep) ==
    [BaseURL |-> dep.baseURL,
     FedBaseURL |-> dep.fedBaseURL,
     ContainerID |-> dep.containerID,
     AccessTokens |-> dep.labels,
     ApplicationServices |-> dep.labels]

\* the HomeserverDeployment deployImage builds after the loop
Deployment(dep) ==
    [BaseURL |-> dep.baseURL,
     FedBaseURL |-> dep.fedBaseURL,
     ContainerID |-> dep.containerID,
     AccessTokens |-> tokensFromLabels(dep.labels),
     ApplicationServices |-> asIDToRegistrationFromLabels(dep.labels)]

\* deployImage: the loop is left, the deployment is returned with lastErr;
\* constructHomeserver returns a failed result carrying the container when
\* lastErr is set
DeployReturn(b) ==
    LET t == task[b]
        d == Deployment(t.dep)
    IN
    /\ t.pc = "health"
    /\ VersionLoopLeft(t.dep, cfg.VersionCheckIterations)
    /\ task' = [task EXCEPT ![b] =
         IF t.dep.lastErr # nil
         THEN [t EXCEPT !.pc = "record",
                        !.res = FailedResult(t, ContextStr(t) \o
                                     ": failed to check server is up. " \o t.dep.lastErr,
                                     d.ContainerID)]
         ELSE [t EXCEPT !.pc = "run"]]
    /\ UNCHANGED <<codec, bs, cfg, networks, containers, images, errc, orch, clean>>

\* constructHomeserver: runner.Run and the result it returns
RunInstructions(b) ==
    LET t == task[b]
        hs == t.bprint.Homeservers[t.i]
        d == Deployment(t.dep)
    IN
    /\ t.pc = "run"
    /\ \/ task' = [task EXCEPT ![b] =
            [t EXCEPT !.pc = "record",
                      !.res = FailedResult(t, "failed to run instructions", d.ContainerID),
                      !.log = Append(@, Call("Run", t.i, d.ContainerID, FALSE, EmptyMap))]]
       \/ task' = [task EXCEPT ![b] =
            [t EXCEPT !.pc = "record",
                      !.res = [err |-> nil, containerID |-> d.ContainerID,
                               contextStr |-> ContextStr(t), homeserver |-> hs],
                      !.tokens = (hs.Name :> AccessTokens(hs)) @@ @,
                      !.log = Append(@, Call("Run", t.i, d.ContainerID, TRUE, EmptyMap))]]
    /\ UNCHANGED <<codec, bs, cfg, networks, containers, images, errc, orch, clean>>


ResultIndexOffByOne(t) == t.i + 1

\* the index construct stores the result of the current homeserver at
ResultIndex(t) == t.i

AppendErrNever(errs, err) == errs

\* if res.err != nil { errs = append(errs, res.err) }
AppendErr(errs, err) == IF err # nil THEN Append(errs, err) ELSE errs

\* construct: the body of the loop after constructHomeserver returned: the
\* error is collected, the logs of a known container are printed, the kill
\* is deferred and the result is stored
RecordResult(b) ==
    LET t == task[b]
        res == t.res
        dump == res.err # nil /\ res.containerID # ""
        log1 == IF dump
                THEN Append(t.log, Call("ContainerLogs", t.i, res.containerID, TRUE, EmptyMap))
                ELSE t.log
    IN
    /\ t.pc = "record"
    /\ task' = [task EXCEPT ![b] =
         [t EXCEPT !.errs = AppendErr(@, res.err),
                   !.log = Append(log1, Call("result", ResultIndex(t), res.containerID,
                                             res.err = nil, EmptyMap)),
                   !.defers = Append(@, res),
                   !.results = [k \in DOMAIN @ |-> IF k = ResultIndex(t) THEN res ELSE @[k]],
                   !.res = ZeroResult,
                   !.dep = ZeroDeploy,
                   !.i = t.i + 1,
                   !.pc = LoopPC(t, t.i + 1)]]
    /\ UNCHANGED <<codec, bs, cfg, networks, containers, images, errc, orch, clean>>

AfterCommitPCKillAtOnce(t, j) == "kill"

\* where construct goes after the commit loop handled results[j]
AfterCommitPC(t, j) == IF j < Len(t.results) THEN "commit" ELSE "kill"

SkipCommitNever(res) == FALSE

\* the commit loop passes over a result that carries an error
SkipCommit(res) == res.err # nil

CommitLabelsTokensOnly(t, res) ==
    labelsForTokens(IF res.homeserver.Name \in DOMAIN t.tokens
                    THEN t.tokens[res.homeserver.Name] ELSE EmptyMap)

\* the labels construct hands to ContainerCommit for a result
CommitLabels(t, res) ==
    MergeInto(labelsForTokens(IF res.homeserver.Name \in DOMAIN t.tokens
                              THEN t.tokens[res.homeserver.Name] ELSE EmptyMap),
              labelsForApplicationServices(res.homeserver))

\* construct: one iteration of the commit loop
CommitContainer(b) ==
    LET t == task[b]
        res == t.results[t.j]
        labels == CommitLabels(t, res)
        ref == "localhost/complement:" \o res.contextStr
    IN
    /\ t.pc = "commit"
    /\ t.j <= Len(t.results)
    /\ IF SkipCommit(res)
       THEN /\ task' = [task EXCEPT ![b] =
                 [t EXCEPT !.j = t.j + 1, !.pc = AfterCommitPC(t, t.j)]]
            /\ UNCHANGED images
       ELSE \E ok \in BOOLEAN :
            /\ ok => res.containerID \in DOMAIN containers
            /\ images' =
                 IF ok
                 THEN (ImageIDOf(ref) :>
                         [Labels |-> MergeInto(containers[res.containerID].Labels, labels),
                          Listed |-> FALSE]) @@ images
                 ELSE images
            /\ task' = [task EXCEPT ![b] =
                 [t EXCEPT
                    !.j = t.j + 1,
                    !.pc = AfterCommitPC(t, t.j),
                    !.errs = IF ok THEN @
                             ELSE Append(@, res.contextStr \o " : failed to ContainerCommit"),
                    !.log = Append(@, Call("ContainerCommit", t.j, res.containerID,
                                           ok, labels))]]
    /\ UNCHANGED <<codec, bs, cfg, networks, containers, errc, orch, clean>>

\* construct: the deferred kills run, last registered first, when it returns.
\* The runtime's answer is only logged by the code: the model records whether
\* the identifier named a container.
KillContainer(b) ==
    LET t == task[b]
        n == Len(t.defers)
        r == t.defers[n]
    IN
    /\ t.pc = "kill"
    /\ n > 0
    /\ task' = [task EXCEPT ![b] =
         [t EXCEPT !.defers = SubSeq(@, 1, n - 1),
                   !.pc = IF n = 1 THEN "returned" ELSE "kill",
                   !.log = Append(@, Call("ContainerKill", n, r.containerID,
                                          r.containerID \in DOMAIN containers, EmptyMap))]]
    /\ UNCHANGED <<codec, bs, cfg, networks, containers, images, errc, orch, clean>>

(***************************************************************************)
(* What is at rest in a specification that does not use it.                *)
(***************************************************************************)
IdleCodec == [pc |-> "idle"]
IdleOrch == [pc |-> "idle"]
IdleClean == [pc |-> "idle"]
IdleChan == [buf |-> <<>>, cap |-> 0, closed |-> FALSE, sent |-> <<>>]

(***************************************************************************)
(* construct of one blueprint, called on an empty runtime.                 *)
(***************************************************************************)
ConstructBlueprintValues ==
    [Name : {"bp1"}, Homeservers : UNION {HomeserverLists(n) : n \in 0..MaxHS}]

InitConstruct ==
    /\ codec = IdleCodec
    /\ \E bprint \in ConstructBlueprintValues :
        /\ bs = <<bprint>>
        /\ task = (bprint.Name :> NewTask(bprint, "createNetwork"))
    /\ cfg \in Configs
    /\ networks = {}
    /\ containers = EmptyMap
    /\ images = EmptyMap
    /\ errc = IdleChan
    /\ orch = IdleOrch
    /\ clean = IdleClean

NextConstruct ==
    \/ \E b \in DOMAIN task : ConstructCreateNetwork(b)
    \/ \E b \in DOMAIN task : ConstructCheckNetwork(b)
    \/ \E b \in DOMAIN task : DeployGetCaVolume(b)
    \/ \E b \in DOMAIN task : DeployContainerCreate(b)
    \/ \E b \in DOMAIN task : DeployContainerStart(b)
    \/ \E b \in DOMAIN task : DeployContainerInspect(b)
    \/ \E b \in DOMAIN task : DeployVersionCheck(b)
    \/ \E b \in DOMAIN task : DeployReturn(b)
    \/ \E b \in DOMAIN task : RunInstructions(b)
    \/ \E b \in DOMAIN task : RecordResult(b)
    \/ \E b \in DOMAIN task : CommitContainer(b)
    \/ \E b \in DOMAIN task : KillContainer(b)

SpecConstruct == InitConstruct /\ [][NextConstruct]_vars


(***************************************************************************)
(* ConstructBlueprintsIfNotExist and ConstructBlueprints.                  *)
(***************************************************************************)
\* An image shows in the listings some time after its commit, and from then
\* on.  Only a listing observes it: the images that started to show since the
\* last listing are chosen when ImageList is called.
ImageViews ==
    {[id \in DOMAIN images |-> [images[id] EXCEPT !.Listed = @ \/ id \in shown]] :
        shown \in SUBSET {id \in DOMAIN images : ~images[id].Listed}}

\* the images of a view that a label filter lists
ListedWithLabel(view, key) ==
    {id \in DOMAIN view : view[id].Listed /\ HasLabel(view[id].Labels, key)}

ListedWithLabelValue(view, key, value) ==
    {id \in DOMAIN view : view[id].Listed /\ HasLabelValue(view[id].Labels, key, value)}

ChanCapOneLess(batch) == Len(batch) - 1

\* make(chan []error, len(bs))
ChanCap(batch) == Len(batch)

\* make(chan []error, len(bs)), with the senders of the postings made on it
MakeChan(batch) == [buf |-> <<>>, cap |-> ChanCap(batch), closed |-> FALSE, sent |-> <<>>]

\* the caller enters ConstructBlueprintsIfNotExist(list)
NewCall(call, list) ==
    [pc |-> IF Len(list) > 0 THEN "list" ELSE "launch",
     call |-> call, k |-> 1, toBuild |-> <<>>, batch |-> <<>>,
     launched |-> 0, errs |-> <<>>, recv |-> 0, i |-> 0, listings |-> 0,
     foundImages |-> FALSE, ret |-> "", removed |-> {}, found |-> <<>>,
     listedAtEntry |-> {n \in {list[x].Name : x \in DOMAIN list} :
                           ListedWithLabelValue(images, "complement_blueprint", n) # {}}]

ToBuildAtMostOne(found) == found <= 1

ToBuildAlways(found) == TRUE

\* ConstructBlueprintsIfNotExist builds a blueprint of which it found so many images
ToBuild(found) == found = 0

\* ConstructBlueprintsIfNotExist: one iteration of the loop over bs, and the
\* call of ConstructBlueprints after the last one
IfNotExistImageList ==
    /\ orch.pc = "list"
    /\ orch.k <= Len(bs)
    /\ \/ /\ orch' = [orch EXCEPT
                 !.pc = "returned",
                 !.ret = "ConstructBlueprintsIfNotExist: failed to ImageList"]
          /\ UNCHANGED <<errc, images>>
       \/ \E view \in ImageViews :
            LET bprint == bs[orch.k]
                found == ListedWithLabelValue(view, "complement_blueprint", bprint.Name)
                build == IF ToBuild(Cardinality(found))
                         THEN Append(orch.toBuild, bprint) ELSE orch.toBuild
                last == orch.k = Len(bs)
            IN  /\ images' = view
                /\ orch' = [orch EXCEPT
                      !.k = @ + 1,
                      !.found = Append(@, Cardinality(found)),
                      !.toBuild = build,
                      !.batch = IF last THEN build ELSE @,
                      !.pc = IF last THEN "launch" ELSE "list"]
                /\ errc' = IF last THEN MakeChan(build) ELSE errc
    /\ UNCHANGED <<codec, bs, cfg, networks, containers, task, clean>>

\* ConstructBlueprints: one go statement of the loop over bs
LaunchConstruct ==
    /\ orch.pc = "launch"
    /\ orch.launched < Len(orch.batch)
    /\ LET bprint == orch.batch[orch.launched + 1] IN
       /\ task' = (bprint.Name :> NewTask(bprint, "createNetwork")) @@ task
       /\ orch' = [orch EXCEPT !.launched = @ + 1]
    /\ UNCHANGED <<codec, bs, cfg, networks, containers, images, errc, clean>>

\* the goroutine: errc <- d.construct(bprint).  A send on a full channel
\* blocks, a send on a closed channel panics.
PostErrors(b) ==
    LET t == task[b] IN
    /\ t.pc = "returned"
    /\ orch.pc # "idle"
    /\ errc.closed \/ Len(errc.buf) < errc.cap
    /\ IF errc.closed
       THEN /\ task' = [task EXCEPT ![b].pc = "panic"]
            /\ UNCHANGED errc
       ELSE /\ task' = [task EXCEPT ![b].pc = "done"]
            /\ errc' = [errc EXCEPT !.buf = Append(@, t.errs), !.sent = Append(@, b)]
    /\ UNCHANGED <<codec, bs, cfg, networks, containers, images, orch, clean>>

CollectCountOneLess(batch) == Len(batch) - 1

\* the number of postings ConstructBlueprints receives
CollectCount(batch) == Len(batch)

\* ConstructBlueprints: one receive of the collecting loop
CollectErrors ==
    /\ orch.pc = "launch" \/ orch.pc = "collect"
    /\ orch.launched = Len(orch.batch)
    /\ orch.recv < CollectCount(orch.batch)
    /\ Len(errc.buf) > 0
    /\ orch' = [orch EXCEPT !.pc = "collect",
                            !.errs = @ \o Head(errc.buf),
                            !.recv = @ + 1]
    /\ errc' = [errc EXCEPT !.buf = Tail(@)]
    /\ UNCHANGED <<codec, bs, cfg, networks, containers, images, task, clean>>

\* ConstructBlueprints: close(errc), and the return of the first error
CloseAndCheck ==
    /\ orch.pc = "launch" \/ orch.pc = "collect"
    /\ orch.launched = Len(orch.batch)
    /\ orch.recv >= CollectCount(orch.batch)
    /\ errc' = [errc EXCEPT !.closed = TRUE]
    /\ orch' = IF Len(orch.errs) > 0
               THEN [orch EXCEPT !.pc = "returned", !.ret = orch.errs[1]]
               ELSE [orch EXCEPT !.pc = "poll"]
    /\ UNCHANGED <<codec, bs, cfg, networks, containers, images, task, clean>>

PollLimitOneMore == 50 + 1

\* the bound of the loop that waits for the images to show up
PollLimit == 50

\* ConstructBlueprints: one iteration of the loop that polls ImageList
PollImageList ==
    /\ orch.pc = "poll"
    /\ orch.i < PollLimit
    /\ \/ /\ orch' = [orch EXCEPT !.pc = "returned", !.ret = "ImageList failed",
                                  !.listings = @ + 1]
          /\ UNCHANGED images
       \/ \E view \in ImageViews :
            LET n == Cardinality(ListedWithLabel(view, complementLabel)) IN
            /\ images' = view
            /\ orch' = IF n < Len(orch.batch)
                       THEN [orch EXCEPT !.i = @ + 1, !.listings = @ + 1,
                                         !.pc = IF orch.i + 1 < PollLimit THEN "poll"
                                                ELSE "removeNetworks"]
                       ELSE [orch EXCEPT !.foundImages = TRUE, !.listings = @ + 1,
                                         !.pc = "removeNetworks"]
    /\ UNCHANGED <<codec, bs, cfg, networks, containers, task, errc, clean>>

\* the orders a listing may return a set in
Orders(S) == {o \in [1..Cardinality(S) -> S] : \A x \in S : \E n \in DOMAIN o : o[n] = x}

\* the loop of removeNetworks over the listed networks nws[k..], where the
\* runtime fails the failAt-th removal (none when failAt = 0)
RECURSIVE removeNetworksLoop(_, _, _, _)
removeNetworksLoop(nws, k, failAt, acc) ==
    IF k > Len(nws) THEN acc
    ELSE IF k = failAt
    THEN [acc EXCEPT !.attempted = @ \cup {nws[k]}, !.err = "NetworkRemove failed"]
    ELSE removeNetworksLoop(nws, k + 1, failAt,
            [acc EXCEPT !.attempted = @ \cup {nws[k]}, !.removed = @ \cup {nws[k]}])

\* the networks the filter label(complementLabel) lists
LabeledNetworks == {nw \in networks : HasLabel(nw.Labels, complementLabel)}

\* removeNetworks: what it may do on the runtime's networks
RemoveNetworksOutcomes ==
    {[attempted |-> {}, removed |-> {}, err |-> "NetworkList failed"]} \cup
    {removeNetworksLoop(o, 1, failAt, [attempted |-> {}, removed |-> {}, err |-> nil]) :
        o \in Orders({nw.ID : nw \in LabeledNetworks}),
        failAt \in 0..Cardinality(LabeledNetworks)}

\* ConstructBlueprints: removeNetworks after the loop, whose error is
\* dropped, and the return
RemoveNetworksAndReturn ==
    /\ orch.pc = "removeNetworks"
    /\ \E r \in RemoveNetworksOutcomes :
        /\ networks' = {nw \in networks : nw.ID \notin r.removed}
        /\ orch' = [orch EXCEPT
                      !.pc = "returned",
                      !.removed = r.attempted,
                      !.ret = IF ~orch.foundImages
                              THEN "failed to find built images via ImageList: did they all build ok?"
                              ELSE nil]
    /\ UNCHANGED <<codec, bs, cfg, containers, images, task, errc, clean>>

\* the caller calls ConstructBlueprintsIfNotExist a second time with the same
\* list; the goroutines of the first call are gone
CallAgain ==
    /\ orch.pc = "returned"
    /\ orch.call = 1
    /\ orch' = NewCall(orch.call + 1, bs)
    /\ errc' = IF Len(bs) = 0 THEN MakeChan(<<>>) ELSE errc
    /\ task' = EmptyMap
    /\ UNCHANGED <<codec, bs, cfg, networks, containers, images, clean>>

\* the blueprints of the batches: without homeserver, with one homeserver
\* that has an application service, with one homeserver that has a user
BatchBlueprints ==
    <<[Name |-> "bpA", Homeservers |-> <<>>],
      [Name |-> "bpB", Homeservers |->
         <<[Name |-> "hs1", Users |-> <<>>, ApplicationServices |->
              <<[ID |-> "as1", HSToken |-> "", ASToken |-> "", URL |-> "http://as:9000",
                 SenderLocalpart |-> "bot", RateLimited |-> FALSE]>>]>>],
      [Name |-> "bpC", Homeservers |->
         <<[Name |-> "hs1", Users |-> <<"alice">>, ApplicationServices |-> <<>>]>>]>>

\* the lists of n blueprints that follow each other in the cycle bpA, bpB, bpC
BatchesOf(n) ==
    IF n > Len(BatchBlueprints) THEN {}
    ELSE {[k \in 1..n |-> BatchBlueprints[((first + k - 2) % Len(BatchBlueprints)) + 1]] :
             first \in 1..Len(BatchBlueprints)}

\* the lists of at most MaxBatch distinct blueprints
Batches == UNION {BatchesOf(n) : n \in 0..MaxBatch}

BatchConfigs ==
    [VersionCheckIterations : {1}, COMPLEMENT_CA : {TRUE}, KeepBlueprints : {<<>>}]

\* a runtime without networks, containers and images
EmptyRuntime == [networks |-> {}, containers |-> EmptyMap, images |-> EmptyMap]

\* what an earlier call that committed the homeserver of bpB and returned an
\* error for another blueprint left in the runtime: the network and the
\* killed container of bpB, and its image, which shows in the listings
LeftByEarlierCall ==
    LET bprint == BatchBlueprints[2]
        hs == bprint.Homeservers[1]
        contextStr == bprint.Name \o "." \o hs.Name
        labels == ContainerLabels(contextStr, bprint.Name, hs.Name)
    IN  [networks |-> {[ID |-> NetworkIDOf("complement_" \o bprint.Name),
                        Labels |-> NetworkLabels(bprint.Name)]},
         containers |-> ContainerIDOf("complement_" \o contextStr) :> [Labels |-> labels],
         images |-> ImageIDOf("localhost/complement:" \o contextStr) :>
                       [Labels |-> MergeInto(labels, labelsForApplicationServices(hs)),
                        Listed |-> TRUE]]

\* the runtimes ConstructBlueprintsIfNotExist is first called on
Runtimes == {EmptyRuntime, LeftByEarlierCall}

\* the first call of ConstructBlueprintsIfNotExist(list) on a runtime
InitCallOn(list, rt) ==
    /\ codec = IdleCodec
    /\ bs = list
    /\ cfg \in BatchConfigs
    /\ networks = rt.networks
    /\ containers = rt.containers
    /\ images = rt.images
    /\ task = EmptyMap
    /\ errc = MakeChan(<<>>)
    /\ orch = [pc |-> IF Len(bs) > 0 THEN "list" ELSE "launch",
               call |-> 1, k |-> 1, toBuild |-> <<>>, batch |-> <<>>,
               launched |-> 0, errs |-> <<>>, recv |-> 0, i |-> 0, listings |-> 0,
               foundImages |-> FALSE, ret |-> "", removed |-> {}, found |-> <<>>,
               listedAtEntry |-> {}]
    /\ clean = IdleClean

\* the first call of ConstructBlueprintsIfNotExist(list) on an empty runtime
InitCall(list) == InitCallOn(list, EmptyRuntime)

InitBatch == \E list \in Batches, rt \in Runtimes : InitCallOn(list, rt)

NextBatch ==
    \/ IfNotExistImageList
    \/ LaunchConstruct
    \/ \E b \in DOMAIN task : ConstructCreateNetwork(b)
    \/ \E b \in DOMAIN task : ConstructCheckNetwork(b)
    \/ \E b \in DOMAIN task : DeployGetCaVolume(b)
    \/ \E b \in DOMAIN task : DeployContainerCreate(b)
    \/ \E b \in DOMAIN task : DeployContainerStart(b)
    \/ \E b \in DOMAIN task : DeployContainerInspect(b)
    \/ \E b \in DOMAIN task : DeployVersionCheck(b)
    \/ \E b \in DOMAIN task : DeployReturn(b)
    \/ \E b \in DOMAIN task : RunInstructions(b)
    \/ \E b \in DOMAIN task : RecordResult(b)
    \/ \E b \in DOMAIN task : CommitContainer(b)
    \/ \E b \in DOMAIN task : KillContainer(b)
    \/ \E b \in DOMAIN task : PostErrors(b)
    \/ CollectErrors
    \/ CloseAndCheck
    \/ PollImageList
    \/ RemoveNetworksAndReturn

SpecBatch == InitBatch /\ [][NextBatch]_vars

(***************************************************************************)
(* ConstructBlueprintsIfNotExist called twice with the same list.          *)
(***************************************************************************)
InitTwice == \E list \in UNION {BatchesOf(n) : n \in 0..MaxList} : InitCall(list)

NextTwice == NextBatch \/ CallAgain

SpecTwice == InitTwice /\ [][NextTwice]_vars

(***************************************************************************)
(* Cleanup.                                                                *)
(***************************************************************************)
\* the loop of removeContainers over the listed containers cs[k..], where
\* the runtime fails the failAt-th removal (none when failAt = 0)
RECURSIVE removeContainersLoop(_, _, _, _)
removeContainersLoop(cs, k, failAt, acc) ==
    IF k > Len(cs) THEN acc
    ELSE IF k = failAt
    THEN [acc EXCEPT !.attempted = Append(@, cs[k]), !.err = "ContainerRemove failed"]
    ELSE removeContainersLoop(cs, k + 1, failAt,
            [acc EXCEPT !.attempted = Append(@, cs[k]), !.removed = @ \cup {cs[k]}])

KeepNone(bprintName, KeepBlueprints) == FALSE

KeepAll(bprintName, KeepBlueprints) == TRUE

\* removeImages: the search of the blueprint name in d.KeepBlueprints
Keep(bprintName, KeepBlueprints) ==
    \E n \in DOMAIN KeepBlueprints : bprintName = KeepBlueprints[n]

\* the loop of removeImages over the listed images imgs[k..] of the view,
\* where the runtime fails the failAt-th removal (none when failAt = 0)
RECURSIVE removeImagesLoop(_, _, _, _, _)
removeImagesLoop(view, imgs, k, failAt, acc) ==
    IF k > Len(imgs) THEN acc
    ELSE LET bprintName == MapGet(view[imgs[k]].Labels, "complement_blueprint") IN
         IF Keep(bprintName, cfg.KeepBlueprints)
         THEN removeImagesLoop(view, imgs, k + 1, failAt, acc)
         ELSE IF k = failAt
         THEN [acc EXCEPT !.attempted = Append(@, imgs[k]), !.err = "ImageRemove failed"]
         ELSE removeImagesLoop(view, imgs, k + 1, failAt,
                 [acc EXCEPT !.attempted = Append(@, imgs[k]),
                             !.removed = @ \cup {imgs[k]}])

\* the empty outcome of a removal loop
NoneRemoved == [attempted |-> <<>>, removed |-> {}, err |-> nil]

CleanupNextStopOnError(err, next) == IF err # nil THEN "done" ELSE next

\* where Cleanup goes after a stage returned err: the error is logged and the
\* next statement runs
CleanupNext(err, next) == next

\* Cleanup: removeContainers, whose error is only logged
CleanupRemoveContainers ==
    /\ clean.pc = "removeContainers"
    /\ LET listed == {id \in DOMAIN containers :
                         HasLabel(containers[id].Labels, complementLabel)}
       IN  \E r \in {[NoneRemoved EXCEPT !.err = "ContainerList failed"]} \cup
                    {removeContainersLoop(o, 1, failAt, NoneRemoved) :
                        o \in Orders(listed), failAt \in 0..Cardinality(listed)} :
            /\ containers' = [id \in DOMAIN containers \ r.removed |-> containers[id]]
            /\ clean' = [clean EXCEPT !.pc = CleanupNext(r.err, "removeImages"),
                                      !.containers = r,
                                      !.order = Append(@, "removeContainers")]
    /\ UNCHANGED <<codec, bs, cfg, networks, images, task, errc, orch>>

\* Cleanup: removeImages, whose error is only logged
CleanupRemoveImages ==
    /\ clean.pc = "removeImages"
    /\ \/ /\ clean' = [clean EXCEPT !.pc = CleanupNext("ImageList failed", "removeNetworks"),
                                   !.images = [NoneRemoved EXCEPT !.err = "ImageList failed"],
                                   !.order = Append(@, "removeImages")]
          /\ UNCHANGED images
       \/ \E view \in ImageViews :
            LET listed == ListedWithLabel(view, complementLabel) IN
            \E o \in Orders(listed), failAt \in 0..Cardinality(listed) :
                LET r == removeImagesLoop(view, o, 1, failAt, NoneRemoved) IN
                /\ images' = [id \in DOMAIN view \ r.removed |-> view[id]]
                /\ clean' = [clean EXCEPT !.pc = CleanupNext(r.err, "removeNetworks"),
                                          !.images = r,
                                          !.listed = listed,
                                          !.order = Append(@, "removeImages")]
    /\ UNCHANGED <<codec, bs, cfg, networks, containers, task, errc, orch>>

\* Cleanup: removeNetworks, whose error is only logged
CleanupRemoveNetworks ==
    /\ clean.pc = "removeNetworks"
    /\ \E r \in RemoveNetworksOutcomes :
        /\ networks' = {nw \in networks : nw.ID \notin r.removed}
        /\ clean' = [clean EXCEPT !.pc = CleanupNext(r.err, "done"),
                                  !.networks = r,
                                  !.order = Append(@, "removeNetworks")]
    /\ UNCHANGED <<codec, bs, cfg, containers, images, task, errc, orch>>

\* the labels of the images Cleanup may find: of a homeserver of bp1 or of
\* bp2, with complementLabel only, and of an image that is not Complement's
OldImageLabels ==
    {ContainerLabels("bp1.hs1", "bp1", "hs1"),
     ContainerLabels("bp2.hs1", "bp2", "hs1"),
     complementLabel :> "bp3.hs1",
     EmptyMap}

OldImageID(n) == "sha256:" \o ToString(n)

\* the images in the runtime when Cleanup is called: at most MaxOld
OldImages ==
    UNION {{[id \in {OldImageID(k) : k \in 1..n} |->
                [Labels |-> l[id], Listed |-> TRUE]] :
               l \in [{OldImageID(k) : k \in 1..n} -> OldImageLabels]} : n \in 0..MaxOld}

\* the containers in the runtime when Cleanup is called
OldContainers ==
    {EmptyMap,
     "ctr:complement_bp1.hs1" :> [Labels |-> ContainerLabels("bp1.hs1", "bp1", "hs1")],
     ("ctr:complement_bp1.hs1" :> [Labels |-> ContainerLabels("bp1.hs1", "bp1", "hs1")])
        @@ ("ctr:other" :> [Labels |-> EmptyMap])}

\* the networks in the runtime when Cleanup is called
OldNetworks ==
    {{},
     {[ID |-> "net:complement_bp1", Labels |-> NetworkLabels("bp1")]},
     {[ID |-> "net:complement_bp1", Labels |-> NetworkLabels("bp1")],
      [ID |-> "net:bridge", Labels |-> EmptyMap]}}

CleanupConfigs ==
    [VersionCheckIterations : {0}, COMPLEMENT_CA : {FALSE},
     KeepBlueprints : {<<>>, <<"bp1">>, <<"bp2", "bp1">>}]

InitCleanup ==
    /\ codec = IdleCodec
    /\ bs = <<>>
    /\ cfg \in CleanupConfigs
    /\ networks \in OldNetworks
    /\ containers \in OldContainers
    /\ images \in OldImages
    /\ task = EmptyMap
    /\ errc = IdleChan
    /\ orch = IdleOrch
    /\ clean = [pc |-> "removeContainers", before |-> images, listed |-> {},
                containers |-> NoneRemoved, images |-> NoneRemoved,
                networks |-> [attempted |-> {}, removed |-> {}, err |-> nil],
                order |-> <<>>]

NextCleanup ==
    \/ CleanupRemoveContainers
    \/ CleanupRemoveImages
    \/ CleanupRemoveNetworks

SpecCleanup == InitCleanup /\ [][NextCleanup]_vars

(***************************************************************************)
(* The label codec on its own: a credential map and a homeserver are       *)
(* encoded as construct encodes them for a commit, then decoded as         *)
(* deployImage decodes the labels of a container.                          *)
(***************************************************************************)
IdleCfg == [VersionCheckIterations |-> 0, COMPLEMENT_CA |-> FALSE, KeepBlueprints |-> <<>>]

InitCodec ==
    /\ codec \in [pc : {"input"}, C : CredentialMaps,
                  hs : [Name : {"hs1"}, ApplicationServices : ASLists],
                  labels : {EmptyMap}, tokens : {EmptyMap}, as : {EmptyMap}]
    /\ bs = <<>>
    /\ cfg = IdleCfg
    /\ networks = {}
    /\ containers = EmptyMap
    /\ images = EmptyMap
    /\ task = EmptyMap
    /\ errc = IdleChan
    /\ orch = IdleOrch
    /\ clean = IdleClean

\* labelsForTokens, merged with labelsForApplicationServices
CodecEncode ==
    /\ codec.pc = "input"
    /\ codec' = [codec EXCEPT
                   !.pc = "encoded",
                   !.labels = MergeInto(labelsForTokens(codec.C),
                                        labelsForApplicationServices(codec.hs))]
    /\ UNCHANGED <<bs, cfg, networks, containers, images, task, errc, orch, clean>>

\* tokensFromLabels and asIDToRegistrationFromLabels of the merged labels
CodecDecode ==
    /\ codec.pc = "encoded"
    /\ codec' = [codec EXCEPT
                   !.pc = "decoded",
                   !.tokens = tokensFromLabels(codec.labels),
                   !.as = asIDToRegistrationFromLabels(codec.labels)]
    /\ UNCHANGED <<bs, cfg, networks, containers, images, task, errc, orch, clean>>

NextCodec == CodecEncode \/ CodecDecode

SpecCodec == InitCodec /\ [][NextCodec]_vars

(***************************************************************************)
(* Properties of the label codec.                                          *)
(***************************************************************************)
ReservedPrefix(k) == HasPrefix(k, "access_token_") \/ HasPrefix(k, "application_service_")

\* no credential key and no application-service id bears a reserved prefix
NoReservedPrefix(C, A) ==
    /\ \A k \in DOMAIN C : ~ReservedPrefix(k)
    /\ \A n \in DOMAIN A : ~ReservedPrefix(A[n].ID)

\* the id-to-registration map of a list of application services: the document
\* of the last service of each id, with the two fixed tokens
RegistrationMapOf(A) ==
    [id \in {A[n].ID : n \in DOMAIN A} |->
        LET last == CHOOSE n \in DOMAIN A :
                        /\ A[n].ID = id
                        /\ \A m \in DOMAIN A : A[m].ID = id => m <= n
        IN  generateASRegistrationYaml(
                [A[last] EXCEPT !.HSToken = FixedHSToken, !.ASToken = FixedASToken])]

\* the credentials the encoding adds for the senders of the application
\* services of a homeserver
SenderTokens(hs) ==
    [u \in {"@" \o hs.ApplicationServices[n].SenderLocalpart \o ":" \o hs.Name :
               n \in DOMAIN hs.ApplicationServices} |-> FixedASToken]

\* C1 as stated: without reserved prefixes, decoding the merged labels gives
\* back exactly the credential map and exactly the id-to-registration map of
\* the application services
C1_RoundTripExact ==
    (codec.pc = "decoded" /\ NoReservedPrefix(codec.C, codec.hs.ApplicationServices))
        => /\ codec.tokens = codec.C
           /\ codec.as = RegistrationMapOf(codec.hs.ApplicationServices)

\* C1 amended: without reserved prefixes, decoding the merged labels gives
\* back exactly the id-to-registration map of the application services, and
\* the credential map overridden with one credential @<sender_localpart>:<hs>
\* carrying the fixed as_token per application service; it is exactly the
\* credential map when the homeserver has no application service
C1_RoundTripWithSenderTokens ==
    (codec.pc = "decoded" /\ NoReservedPrefix(codec.C, codec.hs.ApplicationServices))
        => /\ codec.tokens = MergeInto(codec.C, SenderTokens(codec.hs))
           /\ codec.as = RegistrationMapOf(codec.hs.ApplicationServices)
           /\ codec.hs.ApplicationServices = <<>> => codec.tokens = codec.C

\* a decoded round trip of a non-empty credential map with two application
\* services of the same id, one sender colliding with a credential
C1_Witness ==
    /\ codec.pc = "decoded"
    /\ NoReservedPrefix(codec.C, codec.hs.ApplicationServices)
    /\ "@bot:hs1" \in DOMAIN codec.C
    /\ "@alice:hs1" \in DOMAIN codec.C
    /\ Len(codec.hs.ApplicationServices) = 2
    /\ codec.hs.ApplicationServices[1].ID = codec.hs.ApplicationServices[2].ID
    /\ codec.hs.ApplicationServices[1].SenderLocalpart = "bot"
    /\ codec.tokens["@alice:hs1"] = codec.C["@alice:hs1"]


(***************************************************************************)
(* Properties of construct.                                                *)
(***************************************************************************)
\* the positions of the log of a goroutine that hold a call of an operation
\* for a homeserver
CallsOf(t, op, hs) == {p \in DOMAIN t.log : t.log[p].op = op /\ t.log[p].hs = hs}

\* the deploy and the instruction run of homeserver k both succeeded
SetUp(t, k) == \E p \in CallsOf(t, "Run", k) : t.log[p].ok

\* the loop over the homeservers is over
LoopDone(t) == t.pc \in {"commit", "kill", "returned"} /\ t.networkID # ""

\* the commit loop is over
CommitDone(t) == t.pc \in {"kill", "returned"} /\ t.networkID # ""

\* C2: a commit is issued only for a homeserver that was set up, whose result
\* carries no error, and once; when the commit loop is over a commit was
\* issued for every homeserver that was set up, whatever the others did
C2_CommitExactlySucceeded ==
    \A b \in DOMAIN task :
        LET t == task[b]
            n == Len(t.bprint.Homeservers)
        IN  /\ \A k \in 1..n :
                 /\ Cardinality(CallsOf(t, "ContainerCommit", k)) <= 1
                 /\ CallsOf(t, "ContainerCommit", k) # {}
                        => SetUp(t, k) /\ t.results[k].err = nil
            /\ LoopDone(t) => \A k \in 1..n : SetUp(t, k) <=> t.results[k].err = nil
            /\ CommitDone(t) =>
                 \A k \in 1..n : SetUp(t, k) => CallsOf(t, "ContainerCommit", k) # {}

\* construct returned: the first homeserver was set up and committed, the
\* setup of the second failed and it was not committed
C2_Witness ==
    \E b \in DOMAIN task :
        LET t == task[b] IN
        /\ t.pc = "returned"
        /\ Len(t.bprint.Homeservers) = 2
        /\ SetUp(t, 1)
        /\ \E p \in CallsOf(t, "Run", 2) : ~t.log[p].ok
        /\ Cardinality({p \in DOMAIN t.log : t.log[p].op = "ContainerCommit"}) = 1
        /\ \E p \in CallsOf(t, "ContainerCommit", 1) : t.log[p].ok

\* the identifiers of the containers the runtime created for a goroutine
CreatedBy(t) ==
    {t.log[p].id : p \in {q \in DOMAIN t.log :
                            t.log[q].op = "ContainerCreate" /\ t.log[q].ok}}

\* the identifiers a goroutine asked the runtime to kill
KilledBy(t) == {t.log[p].id : p \in {q \in DOMAIN t.log : t.log[q].op = "ContainerKill"}}

\* C3 as stated: when construct returned, a kill naming its identifier was
\* attempted for every container the runtime created
C3_KillEveryCreated ==
    \A b \in DOMAIN task :
        task[b].pc = "returned" => CreatedBy(task[b]) \subseteq KilledBy(task[b])

\* C4: while a homeserver is deployed or set up, every homeserver before it
\* has its result recorded, and no call of the deploy or the instruction run
\* of an earlier homeserver follows the container-create call of a later one
C4_Sequential ==
    \A b \in DOMAIN task :
        LET t == task[b] IN
        /\ t.pc \in {"getCaVolume", "create", "start", "inspect", "health", "run", "record"}
              => \A m \in 1..(t.i - 1) :
                    /\ t.results[m].contextStr # ""
                    /\ CallsOf(t, "result", m) # {}
        /\ \A p \in DOMAIN t.log :
              t.log[p].op = "ContainerCreate" =>
                 \A q \in DOMAIN t.log :
                    (t.log[q].hs \in 1..(t.log[p].hs - 1)
                       /\ t.log[q].op \in {"ContainerCreate", "ContainerStart",
                                           "ContainerInspect", "GET versions", "Run",
                                           "ContainerLogs", "result"})
                    => q < p

\* the second homeserver is being created after the first one failed with a
\* container, and in another run after the first one was set up
C4_Witness ==
    \E b \in DOMAIN task :
        LET t == task[b] IN
        /\ t.pc = "start"
        /\ t.i = 2
        /\ t.results[1].err # nil
        /\ t.results[1].containerID # ""


(***************************************************************************)
(* Properties of ConstructBlueprints.                                      *)
(***************************************************************************)
\* the number of postings a goroutine made on the channel
Postings(b) == Cardinality({n \in DOMAIN errc.sent : errc.sent[n] = b})

\* C5: no goroutine sends on the closed channel, the send of a goroutine
\* that returned from construct never blocks, a goroutine posts once and
\* not again, and the channel is closed, which ends the collection, only
\* when one posting of every blueprint of the batch was received
C5_OnePostingEach ==
    /\ \A b \in DOMAIN task :
         /\ task[b].pc # "panic"
         /\ task[b].pc = "returned" => ~errc.closed /\ Len(errc.buf) < errc.cap
         /\ Postings(b) = IF task[b].pc = "done" THEN 1 ELSE 0
    /\ errc.closed =>
         /\ orch.recv = Len(orch.batch)
         /\ Len(errc.sent) = Len(orch.batch)
         /\ errc.buf = <<>>
         /\ \A n \in DOMAIN orch.batch :
               /\ orch.batch[n].Name \in DOMAIN task
               /\ task[orch.batch[n].Name].pc = "done"
               /\ Postings(orch.batch[n].Name) = 1

\* the collection of a batch of two ended, the second blueprint having
\* posted before the first
C5_Witness ==
    /\ errc.closed
    /\ Len(orch.batch) = 2
    /\ orch.recv = 2
    /\ Len(errc.sent) = 2
    /\ errc.sent[1] = orch.batch[2].Name

\* ConstructBlueprints returned after every blueprint constructed without
\* error and every listing succeeded and returned too few images
PollsExhausted ==
    /\ orch.pc = "returned"
    /\ errc.closed
    /\ orch.errs = <<>>
    /\ orch.ret # "ImageList failed"
    /\ ~orch.foundImages

\* C6: ConstructBlueprints never lists the images more than 50 times, and
\* when every blueprint constructed without error and every listing
\* succeeded with too few images it returns an error after exactly 50 listings
C6_FiftyListings ==
    /\ orch.pc # "idle" => orch.listings <= 50
    /\ PollsExhausted => orch.listings = 50 /\ orch.ret # nil /\ orch.ret # ""

\* the polls of a batch of two were exhausted
C6_Witness == PollsExhausted /\ Len(orch.batch) = 2 /\ orch.listings = 50

\* C7 as stated: ConstructBlueprints asks for the removal of a network only
\* after a listing returned as many images as the batch has blueprints
C7_RemoveOnlyAfterConvergence ==
    (orch.pc # "idle" /\ orch.removed # {}) => orch.foundImages

(***************************************************************************)
(* Properties of ConstructBlueprintsIfNotExist.                            *)
(***************************************************************************)
\* C8 as stated: the second call delegates an empty list and starts no
\* construction, whatever the first call did
C8_SecondCallBuildsNothing ==
    (orch.pc # "idle" /\ orch.call = 2)
        => orch.toBuild = <<>> /\ orch.batch = <<>> /\ task = EmptyMap

\* C8 amended: when the second call is made while the runtime lists an image
\* labeled complement_blueprint=<name> for every blueprint of the list, it
\* delegates an empty list and starts no construction
C8_SecondCallBuildsNothingWhenListed ==
    (orch.pc # "idle" /\ orch.call = 2
       /\ \A n \in DOMAIN bs : bs[n].Name \in orch.listedAtEntry)
        => orch.toBuild = <<>> /\ orch.batch = <<>> /\ task = EmptyMap

\* the second call returned success for a list of one blueprint whose image
\* the first call committed
C8_Witness ==
    /\ orch.pc = "returned"
    /\ orch.call = 2
    /\ Len(bs) = 1
    /\ bs[1].Name \in orch.listedAtEntry
    /\ orch.ret = nil


(***************************************************************************)
(* Properties of Cleanup.                                                  *)
(***************************************************************************)
\* the images Cleanup found in the runtime whose complement_blueprint label
\* is a name of the keep-list
KeptImages ==
    {id \in DOMAIN clean.before :
        /\ HasLabel(clean.before[id].Labels, "complement_blueprint")
        /\ \E n \in DOMAIN cfg.KeepBlueprints :
              clean.before[id].Labels["complement_blueprint"] = cfg.KeepBlueprints[n]}

\* the identifiers removeImages called ImageRemove with
AttemptedImages == {clean.images.attempted[n] : n \in DOMAIN clean.images.attempted}

\* C9: Cleanup never calls ImageRemove with an image whose
\* complement_blueprint label is in the keep-list, and such an image stays
C9_KeptImagesStay ==
    clean.pc # "idle" =>
        \A id \in KeptImages : id \notin AttemptedImages /\ id \in DOMAIN images

\* Cleanup is over: it kept an image of bp1 and removed another image
C9_Witness ==
    /\ clean.pc = "done"
    /\ \E id \in KeptImages : HasLabelValue(images[id].Labels, "complement_blueprint", "bp1")
    /\ clean.images.removed # {}

\* the listed images that removeImages is to remove
ToRemove ==
    {id \in clean.listed :
        /\ HasLabel(clean.before[id].Labels, complementLabel)
        /\ id \notin KeptImages}

\* removeImages ran and its listing succeeded
ImagesListed == clean.pc \in {"removeNetworks", "done"} /\ clean.images.err # "ImageList failed"

\* C10 as stated: when the listing succeeded, a removal was issued for every
\* listed image that is not kept
C10_EveryOtherImageAttempted ==
    ImagesListed => ToRemove \subseteq AttemptedImages

\* C10 amended: when the listing succeeded, removals were issued for listed
\* images that are not kept, one after the other until one failed: when none
\* failed every such image was removed, and when one failed it is the last
\* one a removal was issued for, the ones before it are removed, and only
\* images that are to be removed were touched
C10_AttemptedUntilFailure ==
    ImagesListed =>
        /\ AttemptedImages \subseteq ToRemove
        /\ clean.images.err = nil =>
              /\ ToRemove = AttemptedImages
              /\ \A id \in ToRemove : id \notin DOMAIN images
        /\ clean.images.err # nil =>
              LET n == Len(clean.images.attempted) IN
              /\ n > 0
              /\ clean.images.attempted[n] \in DOMAIN images
              /\ \A m \in 1..(n - 1) : clean.images.attempted[m] \notin DOMAIN images

\* Cleanup is over: its listing succeeded and no removal failed, a removal was
\* issued for every image that is not kept, and an image was kept
C10_Witness ==
    /\ clean.pc = "done"
    /\ clean.images.err = nil
    /\ ToRemove # {}
    /\ AttemptedImages = ToRemove
    /\ KeptImages # {}

(***************************************************************************)
(* Properties of CreateNetwork.                                            *)
(***************************************************************************)
\* CreateNetwork returned to construct
NetworkReturned(t) == t.pc = "checkNetwork"

\* C11: whatever the runtime answered to NetworkCreate, CreateNetwork returns
\* a nil error only with a non-empty identifier, an answer with an empty
\* identifier always gives an error, and an answer without error and with an
\* identifier gives that identifier and a nil error, with a warning or not
C11_NoSuccessWithoutID ==
    \A b \in DOMAIN task :
        LET t == task[b] IN
        NetworkReturned(t) =>
            /\ t.err = nil => t.networkID # ""
            /\ t.nw.ID = "" => t.err # nil
            /\ (t.nw.err = nil /\ t.nw.ID # "")
                  => t.err = nil /\ t.networkID = t.nw.ID

\* CreateNetwork returned an identifier for an answer that carried a warning
C11_Witness ==
    \E b \in DOMAIN task :
        LET t == task[b] IN
        /\ NetworkReturned(t)
        /\ t.nw.Warning # ""
        /\ t.nw.ID # ""
        /\ t.err = nil
        /\ t.networkID = t.nw.ID

(***************************************************************************)
(* Properties of the goroutines of ConstructBlueprints.                    *)
(***************************************************************************)
\* a step of the goroutine of a blueprint
GoroutineStep(b) ==
    \/ ConstructCreateNetwork(b)
    \/ ConstructCheckNetwork(b)
    \/ DeployGetCaVolume(b)
    \/ DeployContainerCreate(b)
    \/ DeployContainerStart(b)
    \/ DeployContainerInspect(b)
    \/ DeployVersionCheck(b)
    \/ DeployReturn(b)
    \/ RunInstructions(b)
    \/ RecordResult(b)
    \/ CommitContainer(b)
    \/ KillContainer(b)
    \/ PostErrors(b)

\* ConstructBlueprints left the loop of go statements
AllLaunched ==
    orch.pc \in {"launch", "collect", "poll", "removeNetworks", "returned"}
        /\ orch.launched = Len(orch.batch)

\* C12: once the go statements are made every blueprint of the batch has its
\* goroutine; a goroutine that has not posted can always take its next step,
\* whatever the other goroutines did, and is never ended from outside; the
\* channel is closed only when every goroutine posted; and a goroutine that
\* returned from construct with a network handled every one of its
\* homeservers
C12_EveryBlueprintRuns ==
    /\ AllLaunched =>
         \A n \in DOMAIN orch.batch : orch.batch[n].Name \in DOMAIN task
    /\ \A b \in DOMAIN task :
         LET t == task[b] IN
         /\ t.pc # "panic"
         /\ t.pc # "done" => ENABLED GoroutineStep(b)
         /\ errc.closed => t.pc = "done"
         /\ (t.pc \in {"returned", "done"} /\ t.networkID # "")
               => \A k \in DOMAIN t.bprint.Homeservers : CallsOf(t, "result", k) # {}

\* one blueprint of the batch posted an error while the homeserver of the
\* other, set up after that, is about to be committed
C12_Witness ==
    \E b1, b2 \in DOMAIN task :
        /\ b1 # b2
        /\ task[b1].pc = "done"
        /\ task[b1].errs # <<>>
        /\ task[b2].pc = "commit"
        /\ task[b2].errs = <<>>
        /\ orch.errs # <<>>

(***************************************************************************)
(* Properties of construct: the network, the returned errors, the labels   *)
(* of a commit, the logs and the kills.                                    *)
(***************************************************************************)
\* construct has not yet looked at what CreateNetwork returned
BeforeNetworkCheck(t) == t.pc \in {"createNetwork", "checkNetwork"}

\* the containers and the images of the runtime that belong to a blueprint
ContainersOf(b) ==
    {id \in DOMAIN containers : HasLabelValue(containers[id].Labels, "complement_blueprint", b)}

ImagesOf(b) ==
    {id \in DOMAIN images : HasLabelValue(images[id].Labels, "complement_blueprint", b)}

\* C13: the first call construct makes is the creation of the network, made
\* once and before any container exists; when CreateNetwork returned an
\* error construct returns that one error and made no other call: no
\* container, no instruction run, no commit, and no kill is deferred or made
C13_NetworkFirst ==
    \A b \in DOMAIN task :
        LET t == task[b] IN
        /\ t.log # <<>> => t.log[1].op = "NetworkCreate"
        /\ \A p \in DOMAIN t.log : p > 1 => t.log[p].op # "NetworkCreate"
        /\ BeforeNetworkCheck(t) =>
              Len(t.log) <= 1 /\ t.defers = <<>> /\ ContainersOf(b) = {}
        /\ (NetworkReturned(t) /\ t.err # nil) => t.networkID = ""
        /\ (~BeforeNetworkCheck(t) /\ t.networkID # "") => t.log[1].ok
        /\ (~BeforeNetworkCheck(t) /\ t.networkID = "") =>
              /\ t.pc \in {"returned", "done"}
              /\ Len(t.errs) = 1
              /\ Len(t.log) = 1
              /\ t.defers = <<>>
              /\ t.i = 1
              /\ ContainersOf(b) = {}
              /\ ImagesOf(b) = {}

\* construct of a blueprint of two homeservers returned the error of
\* CreateNetwork
C13_Witness ==
    \E b \in DOMAIN task :
        LET t == task[b] IN
        /\ t.pc = "returned"
        /\ t.networkID = ""
        /\ Len(t.bprint.Homeservers) = 2
        /\ Len(t.errs) = 1
        /\ ~t.log[1].ok

(***************************************************************************)
(* Properties of ConstructBlueprintsIfNotExist and of the networks         *)
(* ConstructBlueprints removes.                                            *)
(***************************************************************************)
\* the blueprints of a list for which a listing returned no image, in the
\* order of the list
RECURSIVE WithoutImage(_, _)
WithoutImage(list, found) ==
    IF list = <<>> \/ found = <<>> THEN <<>>
    ELSE (IF Head(found) = 0 THEN <<Head(list)>> ELSE <<>>)
            \o WithoutImage(Tail(list), Tail(found))

\* ConstructBlueprintsIfNotExist called ConstructBlueprints
Delegated ==
    \/ orch.pc \in {"launch", "collect", "poll", "removeNetworks"}
    \/ orch.pc = "returned"
          /\ orch.ret # "ConstructBlueprintsIfNotExist: failed to ImageList"

\* C14: the blueprints ConstructBlueprintsIfNotExist collects, and hands to
\* ConstructBlueprints after its last listing, are those of its input for
\* which its listing of complement_blueprint=<name> returned no image, in
\* input order; only they get a goroutine
C14_DelegatesExactlyMissing ==
    orch.pc # "idle" =>
        /\ Len(orch.found) <= Len(bs)
        /\ orch.toBuild = WithoutImage(bs, orch.found)
        /\ Delegated => Len(orch.found) = Len(bs) /\ orch.batch = orch.toBuild
        /\ \A b \in DOMAIN task :
              \E n \in DOMAIN orch.found : bs[n].Name = b /\ orch.found[n] = 0
        /\ \A n \in DOMAIN orch.found :
              orch.found[n] > 0 => bs[n].Name \notin DOMAIN task

\* ConstructBlueprints returned success for the second of two blueprints,
\* the first of which had an image
C14_Witness ==
    /\ orch.pc = "returned"
    /\ orch.ret = nil
    /\ Len(bs) = 2
    /\ orch.found = <<1, 0>>
    /\ orch.batch = <<bs[2]>>
    /\ DOMAIN task = {bs[2].Name}
    /\ task[bs[2].Name].pc = "done"

\* the identifiers of the networks of the blueprints of the batch
BatchNetworks ==
    {NetworkIDOf("complement_" \o orch.batch[n].Name) : n \in DOMAIN orch.batch}

\* C15 as stated: ConstructBlueprints asks for the removal of networks of the
\* blueprints of its batch only
C15_RemovesOnlyBatchNetworks ==
    orch.pc # "idle" => orch.removed \subseteq BatchNetworks

(***************************************************************************)
(* Properties of the stages of Cleanup.                                    *)
(***************************************************************************)
\* the stages of Cleanup in the order of its statements
CleanupStages == <<"removeContainers", "removeImages", "removeNetworks">>

\* C16: the stages Cleanup ran are the first ones of containers, images,
\* networks, in that order, and whatever errors they returned Cleanup is at
\* the stage that follows the last one it ran, or over when it ran all three:
\* no error of a stage ends Cleanup or leaves a later stage out
C16_StagesInOrder ==
    clean.pc # "idle" =>
        LET n == Len(clean.order) IN
        /\ n <= Len(CleanupStages)
        /\ clean.order = SubSeq(CleanupStages, 1, n)
        /\ clean.pc = IF n = Len(CleanupStages) THEN "done" ELSE CleanupStages[n + 1]

\* Cleanup is over: the removal of the containers and the removal of the
\* images failed, and the networks were removed
C16_Witness ==
    /\ clean.pc = "done"
    /\ clean.containers.err # nil
    /\ clean.images.err # nil
    /\ clean.order = CleanupStages
    /\ clean.networks.err = nil
    /\ clean.networks.removed # {}

\* the commit of homeserver k was issued and succeeded
Committed(t, k) == \E p \in CallsOf(t, "ContainerCommit", k) : t.log[p].ok

\* the failures construct met: of CreateNetwork, of the deploy or the
\* instruction run of a homeserver, of a commit
FailuresOf(t) ==
    IF ~t.log[1].ok THEN 1
    ELSE Cardinality({k \in DOMAIN t.bprint.Homeservers : ~SetUp(t, k)})
         + Cardinality({p \in DOMAIN t.log :
                           t.log[p].op = "ContainerCommit" /\ ~t.log[p].ok})

\* C17: when construct returned, its error list has one entry per failure,
\* and is empty exactly when the network was created and every homeserver was
\* set up and committed; and when ConstructBlueprints returned without error,
\* every homeserver of every blueprint of the batch has a successful commit
C17_EmptyIffAllSucceeded ==
    /\ \A b \in DOMAIN task :
         LET t == task[b] IN
         t.pc \in {"returned", "done"} =>
            /\ Len(t.errs) = FailuresOf(t)
            /\ t.errs = <<>> <=>
                  /\ t.log[1].ok
                  /\ \A k \in DOMAIN t.bprint.Homeservers : SetUp(t, k) /\ Committed(t, k)
    /\ (orch.pc = "returned" /\ orch.ret = nil) =>
         \A n \in DOMAIN orch.batch :
            /\ orch.batch[n].Name \in DOMAIN task
            /\ \A k \in DOMAIN orch.batch[n].Homeservers :
                  Committed(task[orch.batch[n].Name], k)

\* ConstructBlueprints returned without error for a batch of two blueprints
\* with a homeserver each
C17_Witness ==
    /\ orch.pc = "returned"
    /\ orch.ret = nil
    /\ Len(orch.batch) = 2
    /\ \A n \in DOMAIN orch.batch :
          /\ Len(orch.batch[n].Homeservers) = 1
          /\ task[orch.batch[n].Name].errs = <<>>
          /\ Committed(task[orch.batch[n].Name], 1)

\* the keys of the three identity labels
IdentityKeys == {complementLabel, "complement_blueprint", "complement_hs_name"}

\* the keys of the labels of the credentials and of the application services
\* of a homeserver
CredentialLabelKeys(hs) == {"access_token_" \o u : u \in DOMAIN AccessTokens(hs)}

ServiceLabelKeys(hs) ==
    {"application_service_" \o hs.ApplicationServices[n].ID : n \in DOMAIN hs.ApplicationServices}

SenderLabelKeys(hs) == {"access_token_" \o u : u \in DOMAIN SenderTokens(hs)}

\* the positions of the log of a goroutine that hold a commit
Commits(t) == {p \in DOMAIN t.log : t.log[p].op = "ContainerCommit"}

\* C18 as stated: the keys of the label map handed to a commit are the three
\* identity labels, one access_token_ label per credential of the executor
\* and one application_service_ label per application service, and no other
C18_CommitLabelsWithIdentity ==
    \A b \in DOMAIN task :
        LET t == task[b] IN
        \A p \in Commits(t) :
            LET hs == t.bprint.Homeservers[t.log[p].hs] IN
            DOMAIN t.log[p].labels =
                IdentityKeys \cup CredentialLabelKeys(hs) \cup ServiceLabelKeys(hs)

\* C18 amended: the label map handed to a commit holds no identity label; it
\* holds one access_token_ label per credential of the executor, one
\* application_service_ label per application service with its registration
\* document, and one access_token_@<sender_localpart>:<homeserver> label with
\* the fixed as_token per application service, and no other key; the image
\* of a successful commit carries these labels and the identity labels,
\* which it has from its container
C18_CommitLabelsWithoutIdentity ==
    \A b \in DOMAIN task :
        LET t == task[b] IN
        \A p \in Commits(t) :
            LET hs == t.bprint.Homeservers[t.log[p].hs]
                labels == t.log[p].labels
                contextStr == t.bprint.Name \o "." \o hs.Name
                image == ImageIDOf("localhost/complement:" \o contextStr)
            IN  /\ DOMAIN labels \cap IdentityKeys = {}
                /\ DOMAIN labels = CredentialLabelKeys(hs) \cup ServiceLabelKeys(hs)
                                      \cup SenderLabelKeys(hs)
                /\ \A u \in DOMAIN SenderTokens(hs) :
                      labels["access_token_" \o u] = FixedASToken
                /\ \A u \in DOMAIN AccessTokens(hs) \ DOMAIN SenderTokens(hs) :
                      labels["access_token_" \o u] = AccessTokens(hs)[u]
                /\ \A id \in DOMAIN RegistrationMapOf(hs.ApplicationServices) :
                      labels["application_service_" \o id]
                         = RegistrationMapOf(hs.ApplicationServices)[id]
                /\ t.log[p].ok =>
                      /\ image \in DOMAIN images
                      /\ images[image].Labels =
                            MergeInto(ContainerLabels(contextStr, t.bprint.Name, hs.Name),
                                      labels)

\* a homeserver with a credential of the executor and an application service
\* was committed
C18_Witness ==
    \E b \in DOMAIN task :
        LET t == task[b] IN
        \E p \in Commits(t) :
            LET hs == t.bprint.Homeservers[t.log[p].hs] IN
            /\ t.log[p].ok
            /\ AccessTokens(hs) # EmptyMap
            /\ hs.ApplicationServices # <<>>

\* the homeservers of a goroutine whose container the runtime created and
\* whose construction failed
FailedWithContainer(t) ==
    {k \in DOMAIN t.bprint.Homeservers :
        /\ \E p \in CallsOf(t, "ContainerCreate", k) : t.log[p].ok
        /\ \E p \in CallsOf(t, "result", k) : ~t.log[p].ok}

\* C19 as stated: for every homeserver that failed after its container was
\* created, the logs of that container were asked for before its result was
\* recorded, hence before the next homeserver is deployed, and before any
\* kill
C19_LogsDumpedOnFailure ==
    \A b \in DOMAIN task :
        LET t == task[b] IN
        \A k \in FailedWithContainer(t) :
            \E p \in CallsOf(t, "ContainerLogs", k) :
                /\ \E c \in CallsOf(t, "ContainerCreate", k) : t.log[p].id = t.log[c].id
                /\ \A q \in CallsOf(t, "result", k) : p < q
                /\ \A q \in DOMAIN t.log : t.log[q].op = "ContainerKill" => p < q

\* the positions of the log of a goroutine that hold a kill
Kills(t) == {p \in DOMAIN t.log : t.log[p].op = "ContainerKill"}

\* C20: a kill is made only when the commit loop has passed over every
\* result, and after every commit of the blueprint; while the commit loop
\* runs every result still has its kill deferred; and when construct
\* returned, to post its errors, one kill was made per homeserver it handled
\* and none is left
C20_KillsAfterCommits ==
    \A b \in DOMAIN task :
        LET t == task[b] IN
        /\ Kills(t) # {} =>
              /\ t.pc \in {"kill", "returned", "done"}
              /\ t.j > Len(t.results)
        /\ \A p \in Kills(t) : \A q \in Commits(t) : q < p
        /\ t.pc = "commit" =>
              Len(t.defers) = Len(t.bprint.Homeservers) /\ Kills(t) = {}
        /\ (t.pc \in {"returned", "done"} /\ t.networkID # "") =>
              /\ t.defers = <<>>
              /\ Cardinality(Kills(t)) = Len(t.bprint.Homeservers)

\* construct of two homeservers returned: the first was committed, the second
\* failed with its container, and both were killed after the commit
C20_Witness ==
    \E b \in DOMAIN task :
        LET t == task[b] IN
        /\ t.pc = "returned"
        /\ Len(t.bprint.Homeservers) = 2
        /\ Committed(t, 1)
        /\ t.results[2].err # nil
        /\ t.results[2].containerID # ""
        /\ Cardinality(Kills(t)) = 2

(***************************************************************************)
(* Properties of deployImage: the health check and the decoded labels.     *)
(***************************************************************************)
\* the positions of the log of a goroutine that hold a poll of /versions for
\* a homeserver
Polls(t, k) == CallsOf(t, "GET versions", k)

\* the polls of /versions for a homeserver were made and all of them failed
AllPollsFailed(t, k) == Polls(t, k) # {} /\ \A p \in Polls(t, k) : ~t.log[p].ok

\* deployImage returned to constructHomeserver for the current homeserver
\* after it reached the loop that polls /versions
DeployReturned(t) == t.pc \in {"run", "record"} /\ t.dep.baseURL # ""

\* C21: with an iteration bound n >= 1, while every poll fails no more than n
\* polls are made, and when deployImage returned after every poll failed it
\* made exactly n polls and returned an error together with a deployment
\* that carries the identifier of the created container, which is the
\* identifier of the failed result; the result recorded for such a
\* homeserver carries an error and that identifier
C21_ExhaustionKeepsContainer ==
    cfg.VersionCheckIterations >= 1 =>
        \A b \in DOMAIN task :
            LET t == task[b]
                n == cfg.VersionCheckIterations
            IN  /\ \A k \in DOMAIN t.bprint.Homeservers :
                      AllPollsFailed(t, k) => Cardinality(Polls(t, k)) <= n
                /\ (DeployReturned(t) /\ AllPollsFailed(t, t.i)) =>
                      /\ Cardinality(Polls(t, t.i)) = n
                      /\ t.dep.polls = n
                      /\ t.pc = "record"
                      /\ t.res.err # nil
                      /\ Deployment(t.dep).ContainerID # ""
                      /\ t.res.containerID = Deployment(t.dep).ContainerID
                      /\ \E c \in CallsOf(t, "ContainerCreate", t.i) :
                            t.log[c].ok /\ t.log[c].id = t.res.containerID
                /\ \A k \in DOMAIN t.bprint.Homeservers :
                      (AllPollsFailed(t, k) /\ CallsOf(t, "result", k) # {}) =>
                         /\ Cardinality(Polls(t, k)) = n
                         /\ t.results[k].err # nil
                         /\ \E c \in CallsOf(t, "ContainerCreate", k) :
                               t.log[c].ok /\ t.log[c].id = t.results[k].containerID

\* with a bound of two, both polls of the second homeserver failed and its
\* failed result, which carries the container, is recorded
C21_Witness ==
    \E b \in DOMAIN task :
        LET t == task[b] IN
        /\ cfg.VersionCheckIterations = 2
        /\ Len(t.bprint.Homeservers) = 2
        /\ AllPollsFailed(t, 2)
        /\ Cardinality(Polls(t, 2)) = 2
        /\ CallsOf(t, "result", 2) # {}
        /\ t.results[2].err # nil
        /\ t.results[2].containerID # ""

\* C22 as stated: the deployment deployImage returned for a homeserver holds
\* the registration document of every application service of the homeserver
\* and no credential
C22_DeploymentHoldsRegistrations ==
    \A b \in DOMAIN task :
        LET t == task[b] IN
        DeployReturned(t) =>
            LET d == Deployment(t.dep)
                A == RegistrationMapOf(t.bprint.Homeservers[t.i].ApplicationServices)
            IN  /\ \A id \in DOMAIN A :
                      id \in DOMAIN d.ApplicationServices /\ d.ApplicationServices[id] = A[id]
                /\ d.AccessTokens = EmptyMap

\* C22 amended: the labels the deployment is decoded from are the three
\* identity labels the container was created with, so the deployment
\* deployImage returned holds no registration document, whatever the
\* application services of the homeserver, and no credential
C22_DeploymentMapsEmpty ==
    \A b \in DOMAIN task :
        LET t == task[b] IN
        DeployReturned(t) =>
            LET d == Deployment(t.dep)
                hs == t.bprint.Homeservers[t.i]
            IN  /\ t.dep.labels = ContainerLabels(ContextStr(t), t.bprint.Name, hs.Name)
                /\ DOMAIN t.dep.labels = IdentityKeys
                /\ d.ApplicationServices = EmptyMap
                /\ d.AccessTokens = EmptyMap
                /\ d.ContainerID = t.dep.containerID

\* deployImage returned without error for a homeserver that has an
\* application service
C22_Witness ==
    \E b \in DOMAIN task :
        LET t == task[b] IN
        /\ DeployReturned(t)
        /\ t.pc = "run"
        /\ t.dep.up
        /\ t.bprint.Homeservers[t.i].ApplicationServices # <<>>

\* a poll of /versions for a homeserver returned 200
ObservedHealthy(t, k) == \E p \in Polls(t, k) : t.log[p].ok

\* C23 as stated: whatever the iteration bound, deployImage returns a nil
\* error, and the homeserver is handed to the instruction executor and
\* committed, only after a poll of /versions returned 200 for it
C23_NilErrorOnlyAfterHealthy ==
    \A b \in DOMAIN task :
        LET t == task[b] IN
        /\ t.pc = "run" => ObservedHealthy(t, t.i)
        /\ \A k \in DOMAIN t.bprint.Homeservers :
              (CallsOf(t, "Run", k) # {} \/ CallsOf(t, "ContainerCommit", k) # {})
                 => ObservedHealthy(t, k)

====
